---- MODULE Spec2Model ----
(***************************************************************************)
(* Model of recompose's nest (src/packages/recompose/nest.js).             *)
(*                                                                         *)
(*   const nest = (...Components) => {                                     *)
(*     const factories = Components.map(createEagerFactory)                *)
(*     const Nest = ({ ...props, children }) =>                            *)
(*       factories.reduceRight(                                            *)
(*         (child, factory) => factory(props, child), children)            *)
(*     if (process.env.NODE_ENV !== 'production') {                        *)
(*       const displayNames = Components.map(getDisplayName)               *)
(*       Nest.displayName = `nest(${displayNames.join(', ')})`             *)
(*     }                                                                   *)
(*     return Nest                                                         *)
(*   }                                                                     *)
(*                                                                         *)
(* A props object is a function from the keys it owns to their values; a   *)
(* renderable is a record.  The state machine constructs one nested        *)
(* factory and then invokes it a bounded number of times.                  *)
(***************************************************************************)
EXTENDS Integers, Sequences, FiniteSets, TLC

\* ---------------------------------------------------------------- bounds
MaxComponents == 3
MaxInvocations == 3

\* ------------------------------------------------------- values and props
\* The value a missing property reads as.
Undefined == [text |-> "undefined"]

\* Children payloads a caller supplies.
ChildValues == {[text |-> "X"], [text |-> "Y"]}

\* The reserved key under which the host framework passes nested content.
ChildrenKey == "children"

\* Property read: a key the object does not own reads as undefined.
Get(obj, key) == IF key \in DOMAIN obj THEN obj[key] ELSE Undefined

\* Object rest: a fresh object with every own key of obj except key.
Without(obj, key) == [k \in DOMAIN obj \ {key} |-> obj[k]]

\* Object spread plus one key: { ...obj, [key]: v }.
With(obj, key, v) == [k \in DOMAIN obj \cup {key} |-> IF k = key THEN v ELSE obj[k]]

\* The argument objects a caller may invoke the nested factory with.
Args ==
  { [k \in {"id"} |-> "v1"] } \cup
  { [k \in {} |-> "v1"] } \cup
  { [k \in {"id", ChildrenKey} |-> IF k = "id" THEN "v1" ELSE c] : c \in ChildValues } \cup
  { [k \in {ChildrenKey} |-> c] : c \in ChildValues }

\* ------------------------------------------------------------ components
\* The inputs of nest: identity-like wrappers that render their children
\* under an identifying marker.  arity 1 is a renderer (props) -> renderable,
\* arity 2 a factory (props, children) -> renderable; name "" is anonymous.
ComponentPool ==
  { [marker |-> "A", name |-> "A", arity |-> 1],
    [marker |-> "B", name |-> "B", arity |-> 2],
    [marker |-> "C", name |-> "",  arity |-> 1] }

RECURSIVE SeqsUpTo(_, _)
SeqsUpTo(S, n) ==
  IF n = 0 THEN { <<>> }
  ELSE LET shorter == SeqsUpTo(S, n - 1)
       IN  shorter \cup { Append(s, x) : s \in shorter, x \in S }

\* A renderer called with its props: renders props.children under its marker.
Render(C, p) == [type |-> C.marker, props |-> p, child |-> Get(p, ChildrenKey)]

\* A two-argument factory called directly: renders c under its marker.
CallFactory(C, p, c) == [type |-> C.marker, props |-> p, child |-> c]

\* The factory normalizer: a two-argument callable is kept and invoked
\* directly, anything else is adapted once so that children is threaded into
\* the props under the reserved key.
createEagerFactory(C) == [component |-> C, adapted |-> (C.arity # 2)]

\* Calling a normalized factory with (props, children).
ApplyFactory(f, p, c) ==
  IF f.adapted THEN Render(f.component, With(p, ChildrenKey, c))
  ELSE CallFactory(f.component, p, c)

\* The display-name helper: the component's name, or a generic name.
getDisplayName(C) == IF C.name = "" THEN "Component" ELSE C.name

\* Array.prototype.join.
RECURSIVE join(_, _)
join(names, sep) ==
  IF names = <<>> THEN ""
  ELSE IF Len(names) = 1 THEN names[1]
  ELSE names[1] \o sep \o join(Tail(names), sep)

\* The sequence back to front (used by the in-place-reverse variant of Nest).
Reverse(s) == [i \in DOMAIN s |-> s[Len(s) + 1 - i]]

\* The value of Nest.displayName when nest did not set it.
NoDisplayName == ""

\* --------------------------------------------------------- the reduction
\* One call of the reducer callback (child, factory) => factory(props, child),
\* recorded in the call log.
Step(st, f, i, props) ==
  LET r == ApplyFactory(f, props, st.acc)
  IN  [acc |-> r,
       calls |-> Append(st.calls, [index |-> i, props |-> props, child |-> st.acc, result |-> r])]

\* factories.reduceRight(callback, initial): from index i down to 1.
RECURSIVE reduceRight(_, _, _, _)
reduceRight(fs, i, props, st) ==
  IF i = 0 THEN st
  ELSE reduceRight(fs, i - 1, props, Step(st, fs[i], i, props))

\* factories.reduce(callback, initial): from index i up to Len(fs).
RECURSIVE reduce(_, _, _, _)
reduce(fs, i, props, st) ==
  IF i > Len(fs) THEN st
  ELSE reduce(fs, i + 1, props, Step(st, fs[i], i, props))

\* reduceRight whose callback ignores the accumulator: factory(props, children).
RECURSIVE reduceRightSameChild(_, _, _, _, _)
reduceRightSameChild(fs, i, props, children, st) ==
  IF i = 0 THEN st
  ELSE LET r == ApplyFactory(fs[i], props, children)
       IN  reduceRightSameChild(fs, i - 1, props, children,
             [acc |-> r,
              calls |-> Append(st.calls, [index |-> i, props |-> props, child |-> children, result |-> r])])

\* What one invocation leaves behind and returns.
Outcome(self, arg, st) ==
  [result |-> st.acc, calls |-> st.calls, arg |-> arg,
   factories |-> self.factories, normalizeCalls |-> self.normalizeCalls]

\* Variants of Nest with one plausible slip each.
Nest_reduce(self, arg) ==
  Outcome(self, arg,
    reduce(self.factories, 1, Without(arg, ChildrenKey),
           [acc |-> Get(arg, ChildrenKey), calls |-> <<>>]))

Nest_noInitialValue(self, arg) ==
  Outcome(self, arg,
    reduceRight(self.factories, Len(self.factories), Without(arg, ChildrenKey),
                [acc |-> Undefined, calls |-> <<>>]))

Nest_wholeProps(self, arg) ==
  Outcome(self, arg,
    reduceRight(self.factories, Len(self.factories), arg,
                [acc |-> Get(arg, ChildrenKey), calls |-> <<>>]))

Nest_spreadChildren(self, arg) ==
  Outcome(self, arg,
    reduceRight(self.factories, Len(self.factories), With(arg, ChildrenKey, Get(arg, ChildrenKey)),
                [acc |-> Get(arg, ChildrenKey), calls |-> <<>>]))

Nest_reverseInPlace(self, arg) ==
  [ Outcome(self, arg,
      reduce(Reverse(self.factories), 1, Without(arg, ChildrenKey),
             [acc |-> Get(arg, ChildrenKey), calls |-> <<>>]))
    EXCEPT !.factories = Reverse(self.factories) ]

Nest_lazyFactories(self, arg) ==
  [ Outcome(self, arg,
      reduceRight(self.factories, Len(self.factories), Without(arg, ChildrenKey),
                  [acc |-> Get(arg, ChildrenKey), calls |-> <<>>]))
    EXCEPT !.normalizeCalls = [i \in DOMAIN self.normalizeCalls |-> self.normalizeCalls[i] + 1] ]

Nest_sameChild(self, arg) ==
  Outcome(self, arg,
    reduceRightSameChild(self.factories, Len(self.factories), Without(arg, ChildrenKey),
                         Get(arg, ChildrenKey),
                         [acc |-> Get(arg, ChildrenKey), calls |-> <<>>]))

Nest_deleteChildren(self, arg) ==
  [ Outcome(self, arg,
      reduceRight(self.factories, Len(self.factories), Without(arg, ChildrenKey),
                  [acc |-> Get(arg, ChildrenKey), calls |-> <<>>]))
    EXCEPT !.arg = Without(arg, ChildrenKey) ]

\* Nest = ({ ...props, children }) =>
\*   factories.reduceRight((child, factory) => factory(props, child), children)
\* self is the closure (the factories captured at construction and the number
\* of times each input has been normalized); arg is the caller's object.
Nest(self, arg) ==
  LET props == Without(arg, ChildrenKey)
      children == Get(arg, ChildrenKey)
  IN  Outcome(self, arg,
        reduceRight(self.factories, Len(self.factories), props,
                    [acc |-> children, calls |-> <<>>]))

\* ------------------------------------------------------------ construction
\* Whether the diagnostic label is computed: process.env.NODE_ENV !== 'production'.
LabelEnabled(env) == env # "production"

Built(Cs, labelled, sep) ==
  [factories |-> [i \in DOMAIN Cs |-> createEagerFactory(Cs[i])],
   normalizeCalls |-> [i \in DOMAIN Cs |-> 1],
   displayName |-> IF labelled THEN "nest(" \o join([i \in DOMAIN Cs |-> getDisplayName(Cs[i])], sep) \o ")"
                   ELSE NoDisplayName,
   displayNameCalls |-> IF labelled THEN Len(Cs) ELSE 0]

\* Variants of nest with one plausible slip each.
nest_joinDefault(Cs, env) == Built(Cs, LabelEnabled(env), ",")

nest_alwaysLabel(Cs, env) == Built(Cs, TRUE, ", ")

\* nest(...Components): normalizes every input once, and outside production
\* builds computes the label from the inputs' display names.
nest(Cs, env) ==
  [factories |-> [i \in DOMAIN Cs |-> createEagerFactory(Cs[i])],
   normalizeCalls |-> [i \in DOMAIN Cs |-> 1],
   displayName |-> IF LabelEnabled(env)
                   THEN "nest(" \o join([i \in DOMAIN Cs |-> getDisplayName(Cs[i])], ", ") \o ")"
                   ELSE NoDisplayName,
   displayNameCalls |-> IF LabelEnabled(env) THEN Len(Cs) ELSE 0]

\* ---------------------------------------------------------------- state
VARIABLES
  NODE_ENV,          \* process.env.NODE_ENV
  constructed,       \* whether nest(...Components) has returned
  Components,        \* the inputs nest was called with
  factories,         \* the closure's normalized factories
  displayName,       \* Nest.displayName
  normalizeCalls,    \* per input, how many times createEagerFactory ran on it
  displayNameCalls,  \* how many times getDisplayName ran
  history,           \* every invocation so far: its argument and its result
  callLog,           \* the factory calls of the latest invocation, in order
  callerArg          \* the caller's argument object after the latest invocation

vars == <<NODE_ENV, constructed, Components, factories, displayName,
          normalizeCalls, displayNameCalls, history, callLog, callerArg>>

Init ==
  /\ NODE_ENV \in {"production", "development"}
  /\ constructed = FALSE
  /\ Components = <<>>
  /\ factories = <<>>
  /\ displayName = NoDisplayName
  /\ normalizeCalls = <<>>
  /\ displayNameCalls = 0
  /\ history = <<>>
  /\ callLog = <<>>
  /\ callerArg = [k \in {} |-> "v1"]

\* The caller runs nest(...Cs).
Construct ==
  /\ ~constructed
  /\ \E Cs \in SeqsUpTo(ComponentPool, MaxComponents) :
       LET built == nest(Cs, NODE_ENV)
       IN  /\ Components' = Cs
           /\ factories' = built.factories
           /\ normalizeCalls' = built.normalizeCalls
           /\ displayName' = built.displayName
           /\ displayNameCalls' = built.displayNameCalls
  /\ constructed' = TRUE
  /\ UNCHANGED <<NODE_ENV, history, callLog, callerArg>>

\* The host framework (or a caller) invokes the nested factory with arg.
Invoke ==
  /\ constructed
  /\ Len(history) < MaxInvocations
  /\ \E arg \in Args :
       LET out == Nest([factories |-> factories, normalizeCalls |-> normalizeCalls], arg)
       IN  /\ history' = Append(history, [arg |-> arg, result |-> out.result])
           /\ callLog' = out.calls
           /\ callerArg' = out.arg
           /\ factories' = out.factories
           /\ normalizeCalls' = out.normalizeCalls
  /\ UNCHANGED <<NODE_ENV, constructed, Components, displayName, displayNameCalls>>

Next == Construct \/ Invoke

Spec == Init /\ [][Next]_vars

\* -------------------------------------------------------------- helpers
Invoked == history # <<>>
LastArg == history[Len(history)].arg
LastResult == history[Len(history)].result
NumComponents == Len(Components)

\* The markers of a rendered structure from the outside in, and its core.
RECURSIVE MarkersOf(_)
MarkersOf(r) == IF "type" \in DOMAIN r THEN <<r.type>> \o MarkersOf(r.child) ELSE <<>>

RECURSIVE CoreOf(_)
CoreOf(r) == IF "type" \in DOMAIN r THEN CoreOf(r.child) ELSE r

\* The display names of the first k inputs joined by ", ", built left to right.
RECURSIVE NamesUpTo(_)
NamesUpTo(k) ==
  IF k = 0 THEN ""
  ELSE IF k = 1 THEN getDisplayName(Components[1])
  ELSE NamesUpTo(k - 1) \o ", " \o getDisplayName(Components[k])

\* ---------------------------------------------------------------- claims

\* C1: with n >= 1 identity-like wrappers, the result of an invocation with
\* children X carries the inputs' markers from the outside in in input order,
\* has nesting depth exactly n, and has X at its core.
C1_NestingOrder ==
  (Invoked /\ NumComponents >= 1) =>
    /\ MarkersOf(LastResult) = [i \in 1..NumComponents |-> Components[i].marker]
    /\ Len(MarkersOf(LastResult)) = NumComponents
    /\ CoreOf(LastResult) = Get(LastArg, ChildrenKey)

C1_Witness ==
  /\ Invoked
  /\ NumComponents = 3
  /\ Components[1].marker = "A" /\ Components[2].marker = "B" /\ Components[3].marker = "C"
  /\ ChildrenKey \in DOMAIN LastArg
  /\ MarkersOf(LastResult) = <<"A", "B", "C">>

\* C2: nest() with zero inputs returns a factory that returns the children it
\* is given, unchanged, whatever the other props are.
C2_EmptyIsIdentity ==
  (Invoked /\ NumComponents = 0) => LastResult = Get(LastArg, ChildrenKey)

C2_Witness ==
  /\ Invoked
  /\ NumComponents = 0
  /\ ChildrenKey \in DOMAIN LastArg
  /\ "id" \in DOMAIN LastArg
  /\ LastResult = [text |-> "X"]

C5_Label ==
  (constructed /\ NODE_ENV # "production") =>
    /\ displayName = "nest(" \o NamesUpTo(NumComponents) \o ")"
    /\ (NumComponents = 2 /\ Components[1].name = "A" /\ Components[2].name = "B")
         => displayName = "nest(A, B)"

C5_Witness ==
  /\ constructed
  /\ NODE_ENV = "development"
  /\ NumComponents = 2
  /\ Components[1].name = "A" /\ Components[2].name = "B"
  /\ displayName = "nest(A, B)"

\* C6: in a production build nest attaches no label and never calls the
\* display-name helper.
C6_NoLabelInProduction ==
  NODE_ENV = "production" =>
    /\ displayName = NoDisplayName
    /\ displayNameCalls = 0

C6_Witness ==
  /\ constructed
  /\ NODE_ENV = "production"
  /\ NumComponents >= 2
  /\ displayName = NoDisplayName

\* C7: any two invocations of the same nested factory with identical
\* arguments return equal results, however many invocations came between.
C7_Repeatable ==
  \A i, j \in DOMAIN history :
    history[i].arg = history[j].arg => history[i].result = history[j].result

C7_Witness ==
  /\ Len(history) >= 3
  /\ NumComponents >= 2
  /\ Components[1] # Components[2]
  /\ history[1].arg = history[3].arg
  /\ history[2].arg # history[1].arg
  /\ history[1].result = history[3].result

\* C8: every input is normalized exactly once, at construction, and no
\* invocation of the nested factory normalizes any input again.
C8_NormalizedOnce ==
  constructed =>
    /\ DOMAIN normalizeCalls = 1..NumComponents
    /\ \A i \in 1..NumComponents : normalizeCalls[i] = 1

C8_Witness ==
  /\ constructed
  /\ NumComponents >= 2
  /\ Len(history) >= 2
  /\ normalizeCalls[NumComponents] = 1

\* C9: one invocation calls each normalized factory exactly once in the order
\* Fn, ..., F1; Fn receives the supplied children, every other Fi the value
\* F(i+1) returned, and the invocation returns what F1 returned.
C9_RightToLeft ==
  Invoked =>
    /\ Len(callLog) = NumComponents
    /\ \A k \in DOMAIN callLog : callLog[k].index = NumComponents + 1 - k
    /\ NumComponents >= 1 => callLog[1].child = Get(LastArg, ChildrenKey)
    /\ \A k \in 1..(Len(callLog) - 1) : callLog[k + 1].child = callLog[k].result
    /\ NumComponents >= 1 => LastResult = callLog[Len(callLog)].result

C9_Witness ==
  /\ Invoked
  /\ NumComponents = 3
  /\ Len(callLog) = 3
  /\ callLog[1].index = 3 /\ callLog[3].index = 1
  /\ callLog[2].child = callLog[1].result
  /\ ChildrenKey \in DOMAIN LastArg

====
